---- MODULE Spec2Model ----
(***************************************************************************)
(* Clock reading pipeline of TellMeTheTime: read_clock_time (src/main.py)  *)
(* and the hand detection functions filter_lines_by_center,                *)
(* calculate_line_angle, calculate_lines_length,                           *)
(* identify_hour_and_minute_hands and read_time_from_hands                 *)
(* (src/detection_files/hand_detection.py).                                *)
(*                                                                         *)
(* Numbers.  The code computes with floats (np.hypot, np.arctan2,          *)
(* np.degrees) on integer pixel coordinates.  The model keeps every        *)
(* comparison the code makes exact in integer arithmetic:                  *)
(*   - a distance is kept as its square (hypot is monotone in it);         *)
(*   - an angle atan2(dx, dy) is kept as the vector (dx, dy) it is taken   *)
(*     of, atan2(0, 0) = 0 being the angle of (0, 1);                      *)
(*   - angle_diff < 15 is decided by the tangent of the angle between the  *)
(*     two vectors, tan 15 = 2 - sqrt(3);                                  *)
(*   - int(angle / 360 * 12) and int(angle / 360 * 60) are the 30 and 6    *)
(*     degree sectors the vector lies in.                                  *)
(* A line is the tuple <<x1, y1, x2, y2>>.                                 *)
(***************************************************************************)
EXTENDS Integers, Sequences, FiniteSets

VARIABLES
    pc,             \* position of read_clock_time
    image_loads,    \* input: whether cv2.imread can load image_path
    trace,          \* history: the operations of this run, with their outcome
    errlog,         \* the log_error messages of this run
    result,         \* the value read_clock_time returned
    failedStage,    \* the log_step number of the stage that failed, 0 if none
    clock,          \* `clock` of read_clock_time after blob detection
    lines,          \* `lines` of read_clock_time
    idx,            \* number of lines the loop of filter_lines_by_center examined
    filtered_lines, \* the accumulator list of filter_lines_by_center
    hour_markers,   \* `hour_markers` of read_clock_time
    prev            \* history: how the previous run ended, with the value
                    \* it returned if it failed

vars == <<pc, image_loads, trace, errlog, result, failedStage, clock, lines,
          idx, filtered_lines, hour_markers, prev>>

----------------------------------------------------------------------------
(* Bounds and inputs *)

MaxLines == 3

\* Lines around the centre (100, 100).
LineUp == <<100, 100, 100, 20>>
LineRight == <<100, 100, 160, 100>>
LineRightFar == <<128, 100, 220, 100>>
LineUpTilted == <<100, 100, 110, 20>>
LineUpWide == <<100, 100, 125, 30>>
LineAcross == <<80, 100, 120, 100>>
LineAway == <<150, 150, 190, 150>>
LineDown == <<100, 100, 100, 180>>

Swap(line) == <<line[3], line[4], line[1], line[2]>>

Segs ==
    {LineUp, LineRight, LineRightFar, LineUpTilted, LineUpWide, LineAcross,
     LineAway, LineDown, Swap(LineUp), Swap(LineRight)}

\* The lines are those filter_lines_by_center can be called with; a
\* cv2.HoughLinesP run with minLineLength = 80, as detect_lines_hough runs
\* it, returns none of the shorter ones.

\* What detect_clock_center_blob can return as (x, y, radius).
Clocks == {<<100, 100, 80>>, <<100, 110, 78>>}

\* What detect_clock_circle can return as ((x, y), radius).
Circles == {<<<<100, 100>>, 80>>}

RECURSIVE SeqsUpTo(_)
SeqsUpTo(n) ==
    IF n = 0 THEN {<<>>}
    ELSE LET shorter == SeqsUpTo(n - 1)
         IN shorter \cup {Append(s, x) : s \in {t \in shorter : Len(t) = n - 1}, x \in Segs}

LineSeqs == SeqsUpTo(MaxLines)

----------------------------------------------------------------------------
(* Python values *)

None == [t |-> "None"]
PyStr(s) == [t |-> "str", v |-> s]
PyInt(n) == [t |-> "int", v |-> n]
Obj(x) == [t |-> "obj", v |-> x]

IsNone(x) == x.t = "None"

\* `if x:`
Truthy(x) ==
    CASE x.t = "None" -> FALSE
      [] x.t = "str" -> Len(x.v) > 0
      [] x.t = "int" -> x.v # 0
      [] OTHER -> TRUE

----------------------------------------------------------------------------
(* Geometry *)

max_distance_from_center == 30

Abs(n) == IF n < 0 THEN -n ELSE n

\* np.hypot(ax - bx, ay - by), squared
Dist2(ax, ay, bx, by) == (ax - bx) * (ax - bx) + (ay - by) * (ay - by)

\* Which endpoint the angle is taken of: the second when dist1 < dist2,
\* else the first.
FarEndpoint(line, center) ==
    LET dist1 == Dist2(line[1], line[2], center[1], center[2])
        dist2 == Dist2(line[3], line[4], center[1], center[2])
    IN IF dist1 < dist2 THEN <<line[3], line[4]>> ELSE <<line[1], line[2]>>

\* The angle taken as np.arctan2(dy, dx): the arguments exchanged.
calculate_line_angle_exchanged(line, center) ==
    LET end == FarEndpoint(line, center)
        delta_x == end[1] - center[1]
        delta_y == center[2] - end[2]
    IN IF delta_x = 0 /\ delta_y = 0 THEN <<0, 1>> ELSE <<delta_y, delta_x>>

\* The angle of a line, as the vector (dx, dy) that np.arctan2(dx, dy) is
\* taken of; arctan2(0, 0) = 0 is the angle of (0, 1).
calculate_line_angle(line, center) ==
    LET end == FarEndpoint(line, center)
        delta_x == end[1] - center[1]
        delta_y == center[2] - end[2]
    IN IF delta_x = 0 /\ delta_y = 0 THEN <<0, 1>> ELSE <<delta_x, delta_y>>

get_line_angle(line, center) ==
    LET end == FarEndpoint(line, center)
        dx == end[1] - center[1]
        dy == center[2] - end[2]
    IN IF dx = 0 /\ dy = 0 THEN <<0, 1>> ELSE <<dx, dy>>

\* Two angles are the same number in [0, 360).
SameAngle(u, v) ==
    /\ u[1] * v[2] - u[2] * v[1] = 0
    /\ u[1] * v[1] + u[2] * v[2] > 0

\* min(|a - b|, 360 - |a - b|) < min_angle_difference, for the default 15:
\* the angle between u and v is below 15 degrees iff dot > 0 and
\* |cross| < (2 - sqrt 3) * dot.
AngleDiffBelowMin(u, v) ==
    LET dot == u[1] * v[1] + u[2] * v[2]
        cross == Abs(u[1] * v[2] - u[2] * v[1])
    IN /\ dot > 0
       /\ 2 * dot - cross > 0
       /\ 3 * dot * dot < (2 * dot - cross) * (2 * dot - cross)

\* (sqrt a2 + sqrt b2) / 2 < max_distance_from_center
AvgBelowMax(a2, b2) ==
    LET m2 == 4 * max_distance_from_center * max_distance_from_center
    IN /\ m2 - a2 - b2 > 0
       /\ 4 * a2 * b2 < (m2 - a2 - b2) * (m2 - a2 - b2)

\* dist_avg_1 < max_distance_from_center: the first pairing of the
\* endpoints alone.
MinAvgDistFirstPairing(line, chosen) ==
    AvgBelowMax(Dist2(line[1], line[2], chosen[1], chosen[2]),
                Dist2(line[3], line[4], chosen[3], chosen[4]))

\* min(dist_avg_1, dist_avg_2) < max_distance_from_center
MinAvgDistBelowMax(line, chosen) ==
    \/ AvgBelowMax(Dist2(line[1], line[2], chosen[1], chosen[2]),
                   Dist2(line[3], line[4], chosen[3], chosen[4]))
    \/ AvgBelowMax(Dist2(line[1], line[2], chosen[3], chosen[4]),
                   Dist2(line[3], line[4], chosen[1], chosen[2]))

----------------------------------------------------------------------------
(* filter_lines_by_center *)

\* The list of the call before, kept: a list shared between the calls.
KeptFilteredLines(old) == old

\* `filtered_lines = []`
NewFilteredLines(old) == <<>>

\* `dist1 < max_distance_from_center and dist2 < max_distance_from_center`:
\* both endpoints asked to be near the centre.
NearCenterBoth(line, center) ==
    /\ Dist2(line[1], line[2], center[1], center[2])
         < max_distance_from_center * max_distance_from_center
    /\ Dist2(line[3], line[4], center[1], center[2])
         < max_distance_from_center * max_distance_from_center

\* `dist1 < max_distance_from_center or dist2 < max_distance_from_center`
NearCenter(line, center) ==
    \/ Dist2(line[1], line[2], center[1], center[2])
         < max_distance_from_center * max_distance_from_center
    \/ Dist2(line[3], line[4], center[1], center[2])
         < max_distance_from_center * max_distance_from_center

\* `angle_diff < min_angle_difference and min_avg_dist < max_distance_from_center`
TooCloseBoth(line, chosen, center) ==
    /\ AngleDiffBelowMin(get_line_angle(line, center), get_line_angle(chosen, center))
    /\ MinAvgDistBelowMax(line, chosen)

\* `angle_diff < min_angle_difference or min_avg_dist < max_distance_from_center`
TooClose(line, chosen, center) ==
    \/ AngleDiffBelowMin(get_line_angle(line, center), get_line_angle(chosen, center))
    \/ MinAvgDistBelowMax(line, chosen)

\* The iteration without the test of the distance to the centre.
FilterIterAnyDistance(filtered, line, center) ==
    IF ~ \E i \in 1..Len(filtered) : TooClose(line, filtered[i], center)
    THEN Append(filtered, line)
    ELSE filtered

\* One iteration of `for line in lines`, up to the append.
FilterIter(filtered, line, center) ==
    IF NearCenter(line, center)
       /\ ~ \E i \in 1..Len(filtered) : TooClose(line, filtered[i], center)
    THEN Append(filtered, line)
    ELSE filtered

\* `if len(filtered_lines) >= 3: break`
LoopBreaksAtThree(filtered) == Len(filtered) >= 3

\* `if len(filtered_lines) >= 2: break`
LoopBreaks(filtered) == Len(filtered) >= 2

\* The whole loop, from `filtered` on, over lines[i..]: what the function returns.
RECURSIVE FilterFrom(_, _, _, _)
FilterFrom(filtered, ls, i, center) ==
    IF i > Len(ls) THEN filtered
    ELSE LET next == FilterIter(filtered, ls[i], center)
         IN IF LoopBreaks(next) THEN next ELSE FilterFrom(next, ls, i + 1, center)

filter_lines_by_center(ls, center) == FilterFrom(<<>>, ls, 1, center)

----------------------------------------------------------------------------
(* identify_hour_and_minute_hands *)

\* np.hypot(x2 - x1, y2 - y1), squared
Length2(line) == Dist2(line[3], line[4], line[1], line[2])

\* [(line, length), ...]
calculate_lines_length(ls) == [i \in 1..Len(ls) |-> <<ls[i], Length2(ls[i])>>]

\* Stable insertion of marker m into a sequence sorted by `before`.
RECURSIVE InsertSorted(_, _, _)
InsertSorted(sorted, m, ascending) ==
    IF sorted = <<>> THEN <<m>>
    ELSE LET last == sorted[Len(sorted)]
             stays == IF ascending THEN last[2] <= m[2] ELSE last[2] >= m[2]
         IN IF stays THEN Append(sorted, m)
            ELSE Append(InsertSorted(SubSeq(sorted, 1, Len(sorted) - 1), m, ascending), last)

RECURSIVE SortMarkers(_, _)
SortMarkers(markers, ascending) ==
    IF markers = <<>> THEN <<>>
    ELSE InsertSorted(SortMarkers(SubSeq(markers, 1, Len(markers) - 1), ascending),
                      markers[Len(markers)], ascending)

\* The sort without reverse=True: the shortest first.
SortByLengthAscending(markers) == SortMarkers(markers, TRUE)

\* `markers_lengths.sort(key=lambda x: x[1], reverse=True)`: stable, the
\* longest first, equal lengths in their order.
SortByLengthDescending(markers) == SortMarkers(markers, FALSE)

\* identify_hour_and_minute_hands asking for two lines: one line alone gives
\* (None, None).
ClassifyHandsNeedsTwo(filtered) ==
    IF Len(filtered) < 2 THEN <<None, None>>
    ELSE LET markers_lengths == SortByLengthDescending(calculate_lines_length(filtered))
         IN <<Obj(markers_lengths[2][1]), Obj(markers_lengths[1][1])>>

\* What identify_hour_and_minute_hands returns for the filtered lines:
\* the pair (hour_hand, minute_hand).
ClassifyHands(filtered) ==
    IF Len(filtered) = 0 THEN <<None, None>>
    ELSE LET markers_lengths == SortByLengthDescending(calculate_lines_length(filtered))
         IN IF Len(markers_lengths) = 1
            THEN <<Obj(markers_lengths[1][1]), Obj(markers_lengths[1][1])>>
            ELSE IF Len(markers_lengths) = 0 THEN <<None, None>>
            ELSE <<Obj(markers_lengths[2][1]), Obj(markers_lengths[1][1])>>

identify_hour_and_minute_hands(ls, center) ==
    ClassifyHands(filter_lines_by_center(ls, center))

----------------------------------------------------------------------------
(* read_time_from_hands *)

\* tan(6k degrees) * TanScale, rounded down, for k = 1..14; no vector of
\* the model's lines lies between a bound and its rounding.
TanScale == 1000000

TanSix ==
    <<105104, 212556, 324919, 445228, 577350, 726542, 900404, 1110612,
      1376381, 1732050, 2246036, 3077683, 4704630, 9514364>>

\* The quadrant q of the clockwise angle of u (q * 90 <= angle < q * 90 + 90)
\* and u turned back by q * 90 degrees: <<q, a, b>> with a >= 0, b > 0, the
\* rest angle being atan2(a, b).
Quadrant(u) ==
    CASE u[1] >= 0 /\ u[2] > 0 -> <<0, u[1], u[2]>>
      [] u[1] > 0 /\ u[2] <= 0 -> <<1, -u[2], u[1]>>
      [] u[1] <= 0 /\ u[2] < 0 -> <<2, -u[1], -u[2]>>
      [] OTHER -> <<3, u[2], -u[1]>>

\* `round((hour_angle / 360) * 12) % 12`: the nearest hour mark, the bounds
\* being 15, 45 and 75 degrees; tan 15 = 2 - sqrt 3, tan 75 = 2 + sqrt 3.
HourOfAngleRounded(u) ==
    LET q == Quadrant(u)
        a == q[2]
        b == q[3]
        k == IF 2 * b - a > 0 /\ 3 * b * b < (2 * b - a) * (2 * b - a) THEN 0
             ELSE IF a < b THEN 1
             ELSE IF a - 2 * b <= 0 \/ (a - 2 * b) * (a - 2 * b) < 3 * b * b THEN 2
             ELSE 3
    IN (3 * q[1] + k) % 12

\* `int((hour_angle / 360) * 12) % 12`: the 30 degree sector of the angle;
\* tan 30 = 1 / sqrt 3, tan 60 = sqrt 3.
HourOfAngle(u) ==
    LET q == Quadrant(u)
        a == q[2]
        b == q[3]
        k == IF 3 * a * a < b * b THEN 0 ELSE IF a * a < 3 * b * b THEN 1 ELSE 2
    IN (3 * q[1] + k) % 12

\* `int((minute_angle / 360) * 60) % 60`: the 6 degree sector of the angle.
MinuteOfAngle(u) ==
    LET q == Quadrant(u)
        a == q[2]
        b == q[3]
        k == Cardinality({j \in 1..14 : TanSix[j] * b < a * TanScale})
    IN (15 * q[1] + k) % 60

Digits == <<"0", "1", "2", "3", "4", "5", "6", "7", "8", "9">>

\* f"{n:02}" of 0 <= n < 100
TwoDigits(n) == <<Digits[(n \div 10) + 1], Digits[(n % 10) + 1]>>

\* The time as the number hour * 100 + minute, not as a string.
FormatTimeAsNumber(hour, minute) == PyInt(hour * 100 + minute)

\* f"{hour:02}:{minute:02}"
FormatTime(hour, minute) == PyStr(TwoDigits(hour) \o <<":">> \o TwoDigits(minute))

read_time_from_hands(hour_hand_line, minute_hand_line, center) ==
    LET hour_angle == calculate_line_angle(hour_hand_line, center)
        minute_angle == calculate_line_angle(minute_hand_line, center)
        hour == HourOfAngle(hour_angle)
        minute == MinuteOfAngle(minute_angle)
    IN FormatTime(hour, minute)

----------------------------------------------------------------------------
(* read_clock_time *)

\* The operations of a run, in the order of the code, with the log_step
\* number of the stage each belongs to.
StageOrder ==
    <<[op |-> "preprocess_image", stage |-> 1],
      [op |-> "Canny", stage |-> 2],
      [op |-> "detect_clock_circle", stage |-> 3],
      [op |-> "detect_clock_center_blob", stage |-> 4],
      [op |-> "detect_lines_hough", stage |-> 5],
      [op |-> "identify_hour_and_minute_hands", stage |-> 5],
      [op |-> "read_time_from_hands", stage |-> 6]>>

Called(op, stage, out) == Append(trace, [op |-> op, stage |-> stage, out |-> out])

\* What a failing stage returns: `return None`.
\* A failure value that names its stage.
FailValueTagged(stage) == [t |-> "failure", stage |-> stage]

FailValue(stage) == None

\* log_error(message) and `return None`
Fail(stage, message) ==
    /\ errlog' = Append(errlog, message)
    /\ result' = FailValue(stage)
    /\ failedStage' = stage
    /\ pc' = "returned"

\* What cv2.GaussianBlur returns for a loaded image: an array.
Blurred == {Obj("image")}

\* What cv2.Canny returns: an array.
CannyEdges == {Obj("edges")}

\* `clock_center = (int(clock[0]), int(clock[1]))`
clock_center == <<clock.v[1], clock.v[2]>>

PreprocessFailed(grayscale_image, bw_image) ==
    IsNone(grayscale_image) \/ IsNone(bw_image)

EdgesFailed(edges) == IsNone(edges)

\* The test after detect_clock_circle left out.
FaceNeverFails(circle) == FALSE

\* `if clock is None` after detect_clock_circle
FaceFailed(circle) == IsNone(circle)

\* `if clock is None` after detect_clock_center_blob
CenterFailed(blob) == IsNone(blob)

\* `if lines is None or len(lines) == 0`
LinesFailed(ls) == Len(ls) = 0

\* `if hour_markers is None`: the pair itself is never None.
HandsMissingWhenNoTuple(markers) == FALSE

\* `if hour_markers is None or hour_markers[0] is None or hour_markers[1] is None`
HandsMissing(markers) == IsNone(markers[1]) \/ IsNone(markers[2])

Init ==
    /\ pc = "preprocess"
    /\ image_loads \in BOOLEAN
    /\ trace = <<>>
    /\ errlog = <<>>
    /\ result = None
    /\ failedStage = 0
    /\ clock = None
    /\ lines = <<>>
    /\ idx = 0
    /\ filtered_lines = <<>>
    /\ hour_markers = <<None, None>>
    /\ prev = [ended |-> "none", stage |-> 0, result |-> None, log |-> <<>>]

\* Step 1: preprocess_image raises FileNotFoundError when cv2.imread gives
\* None, and read_clock_time does not catch it; else the blurred images are
\* tested for None, which cv2.GaussianBlur never gives.
Preprocess ==
    /\ pc = "preprocess"
    /\ UNCHANGED <<image_loads, clock, lines, idx, filtered_lines, hour_markers, prev>>
    /\ IF ~image_loads
       THEN /\ trace' = Called("preprocess_image", 1, "raise")
            /\ pc' = "raised"
            /\ UNCHANGED <<errlog, result, failedStage>>
       ELSE \E grayscale_image \in Blurred, bw_image \in Blurred :
              IF PreprocessFailed(grayscale_image, bw_image)
              THEN /\ trace' = Called("preprocess_image", 1, "null")
                   /\ Fail(1, "Image preprocessing failed")
              ELSE /\ trace' = Called("preprocess_image", 1, "ok")
                   /\ pc' = "edges"
                   /\ UNCHANGED <<errlog, result, failedStage>>

\* Step 2: cv2.Canny, tested for None, which it never gives.
DetectEdges ==
    /\ pc = "edges"
    /\ UNCHANGED <<image_loads, clock, lines, idx, filtered_lines, hour_markers, prev>>
    /\ \E edges \in CannyEdges :
         IF EdgesFailed(edges)
         THEN /\ trace' = Called("Canny", 2, "null")
              /\ Fail(2, "Edge detection failed")
         ELSE /\ trace' = Called("Canny", 2, "ok")
              /\ pc' = "face"
              /\ UNCHANGED <<errlog, result, failedStage>>

\* Step 3: detect_clock_circle
DetectFace ==
    /\ pc = "face"
    /\ UNCHANGED <<image_loads, clock, lines, idx, filtered_lines, hour_markers, prev>>
    /\ \E circle \in {Obj(c) : c \in Circles} \cup {None} :
         /\ trace' = Called("detect_clock_circle", 3, IF IsNone(circle) THEN "null" ELSE "ok")
         /\ IF FaceFailed(circle)
            THEN Fail(3, "Clock face detection failed")
            ELSE /\ pc' = "center"
                 /\ UNCHANGED <<errlog, result, failedStage>>

\* Step 4: detect_clock_center_blob
RefineCenter ==
    /\ pc = "center"
    /\ UNCHANGED <<image_loads, lines, idx, filtered_lines, hour_markers, prev>>
    /\ \E blob \in {Obj(c) : c \in Clocks} \cup {None} :
         /\ trace' = Called("detect_clock_center_blob", 4, IF IsNone(blob) THEN "null" ELSE "ok")
         /\ clock' = blob
         /\ IF CenterFailed(blob)
            THEN Fail(4, "Clock center detection failed")
            ELSE /\ pc' = "lines"
                 /\ UNCHANGED <<errlog, result, failedStage>>

\* Step 5: detect_lines_hough, then the call of identify_hour_and_minute_hands
\* up to the loop of filter_lines_by_center.
DetectLines ==
    /\ pc = "lines"
    /\ UNCHANGED <<image_loads, clock, hour_markers, prev>>
    /\ \E ls \in LineSeqs :
         /\ lines' = ls
         /\ trace' = Called("detect_lines_hough", 5, IF Len(ls) = 0 THEN "null" ELSE "ok")
         /\ IF LinesFailed(ls)
            THEN /\ Fail(5, "No plausible markers detected")
                 /\ UNCHANGED <<idx, filtered_lines>>
            ELSE /\ filtered_lines' = NewFilteredLines(filtered_lines)
                 /\ idx' = 0
                 /\ pc' = "filter"
                 /\ UNCHANGED <<errlog, result, failedStage>>

\* One iteration of the loop of filter_lines_by_center.
FilterStep ==
    /\ pc = "filter"
    /\ idx < Len(lines)
    /\ filtered_lines' = FilterIter(filtered_lines, lines[idx + 1], clock_center)
    /\ idx' = idx + 1
    /\ pc' = IF LoopBreaks(filtered_lines') \/ idx' = Len(lines) THEN "classify" ELSE "filter"
    /\ UNCHANGED <<image_loads, trace, errlog, result, failedStage, clock, lines,
                   hour_markers, prev>>

\* The rest of identify_hour_and_minute_hands and the test of its result.
\* Unpacking a None marker for the log raises TypeError.
Classify ==
    /\ pc = "classify"
    /\ hour_markers' = ClassifyHands(filtered_lines)
    /\ trace' = Called("identify_hour_and_minute_hands", 5,
                       IF IsNone(hour_markers'[1]) \/ IsNone(hour_markers'[2])
                       THEN "null" ELSE "ok")
    /\ IF HandsMissing(hour_markers')
       THEN Fail(5, "Hour marker detection failed")
       ELSE /\ pc' = IF IsNone(hour_markers'[1]) \/ IsNone(hour_markers'[2])
                     THEN "raised" ELSE "decode"
            /\ UNCHANGED <<errlog, result, failedStage>>
    /\ UNCHANGED <<image_loads, clock, lines, idx, filtered_lines, prev>>

\* Step 6: read_time_from_hands and `if estimated_time:`
Decode ==
    /\ pc = "decode"
    /\ LET estimated_time ==
             read_time_from_hands(hour_markers[1].v, hour_markers[2].v, clock_center)
       IN /\ trace' = Called("read_time_from_hands", 6, "ok")
          /\ IF Truthy(estimated_time)
             THEN /\ result' = estimated_time
                  /\ pc' = "returned"
                  /\ UNCHANGED <<errlog, failedStage>>
             ELSE Fail(6, "Time estimation failed")
    /\ UNCHANGED <<image_loads, clock, lines, idx, filtered_lines, hour_markers, prev>>

\* The caller calls read_clock_time again, on another image.  The locals
\* of the call are new; the model keeps the last accumulator list of
\* filter_lines_by_center until the next call makes its own.  Of the run
\* that ended, prev keeps the failure (a returned time is not kept).
NewRun ==
    /\ pc \in {"returned", "raised"}
    /\ prev' = [ended |-> pc, stage |-> failedStage,
                result |-> IF failedStage # 0 THEN result ELSE None, log |-> errlog]
    /\ pc' = "preprocess"
    /\ image_loads' \in BOOLEAN
    /\ trace' = <<>>
    /\ errlog' = <<>>
    /\ result' = None
    /\ failedStage' = 0
    /\ clock' = None
    /\ lines' = <<>>
    /\ idx' = 0
    /\ hour_markers' = <<None, None>>
    /\ UNCHANGED filtered_lines

Next ==
    \/ Preprocess
    \/ DetectEdges
    \/ DetectFace
    \/ RefineCenter
    \/ DetectLines
    \/ FilterStep
    \/ Classify
    \/ Decode
    \/ NewRun

Spec == Init /\ [][Next]_vars

----------------------------------------------------------------------------
(* Properties *)

Ended == pc \in {"returned", "raised"}

\* This run returned a failure.
Failed == pc = "returned" /\ failedStage # 0

\* This run called filter_lines_by_center, and the call has returned.
FilterReturned ==
    /\ Len(trace) >= 5
    /\ trace[5].out = "ok"
    /\ pc \in {"classify", "decode", "returned", "raised"}

\* This run reached HandsDetected: identify_hour_and_minute_hands gave two hands.
HandsDetected == Len(trace) >= 6 /\ trace[6].out = "ok"

\* The stage each log_error message of read_clock_time belongs to.
StageOfMessage(message) ==
    CASE message = "Image preprocessing failed" -> 1
      [] message = "Edge detection failed" -> 2
      [] message = "Clock face detection failed" -> 3
      [] message = "Clock center detection failed" -> 4
      [] message = "No plausible markers detected" -> 5
      [] message = "Hour marker detection failed" -> 5
      [] message = "Time estimation failed" -> 6
      [] OTHER -> 0

\* C1: every run ends by returning a success or a failure result, never by
\* an uncaught exception, whatever the collaborators give, an image that
\* cannot be loaded included.
C1_NeverCrashes == pc # "raised"

\* C2 as stated: the results of two runs that fail at different stages
\* differ, so that the caller can tell the stages apart from the returned
\* value alone.
C2_ResultTellsStage ==
    (Failed /\ prev.ended = "returned" /\ prev.stage # 0 /\ prev.stage # failedStage)
        => result # prev.result

\* C2 as amended: a failing run returns None whichever stage failed, so two
\* runs failing at different stages return the same value; the failing
\* stage is told only by the one log_error message of the run, which
\* differs between stages.
C2_FailureIsNoneAndLogged ==
    /\ Failed =>
         /\ IsNone(result)
         /\ Len(errlog) = 1
         /\ StageOfMessage(errlog[1]) = failedStage
    /\ (Failed /\ prev.ended = "returned" /\ prev.stage # 0 /\ prev.stage # failedStage) =>
         /\ IsNone(prev.result)
         /\ errlog # prev.log

C2_TwoFailuresAtDifferentStages ==
    /\ Failed
    /\ failedStage = 5
    /\ prev.ended = "returned"
    /\ prev.stage = 3

\* C3: the operations of a run are a prefix of the fixed order preprocess,
\* edges, face, centre, lines and hands, decode, each at most once; an
\* operation runs only if every earlier one succeeded; and once one gives a
\* null or empty result the run has returned a failure of that stage, with
\* no later operation called.
C3_FailFastInOrder ==
    /\ Len(trace) <= Len(StageOrder)
    /\ \A i \in 1..Len(trace) :
         /\ trace[i].op = StageOrder[i].op
         /\ trace[i].stage = StageOrder[i].stage
    /\ \A i \in 1..(Len(trace) - 1) : trace[i].out = "ok"
    /\ (Len(trace) > 0 /\ trace[Len(trace)].out = "null") =>
         /\ pc = "returned"
         /\ failedStage = trace[Len(trace)].stage
         /\ IsNone(result)
    /\ (Len(trace) > 0 /\ trace[Len(trace)].out = "raise") => pc = "raised"
    /\ failedStage # 0 => (Len(trace) > 0 /\ trace[Len(trace)].stage = failedStage)

C3_FailedAtFaceDetection ==
    /\ pc = "returned"
    /\ Len(trace) = 3
    /\ trace[3].out = "null"
    /\ failedStage = 3

\* C4: a run that reached HandsDetected goes on to decode only, and ends
\* returning the time string: the `Time estimation failed` branch is never
\* taken, a reading of hour 0 and minute 0 included.
C4_HandsDetectedEndsInSuccess ==
    /\ HandsDetected => pc \in {"decode", "returned"}
    /\ (HandsDetected /\ Ended) =>
         /\ pc = "returned"
         /\ failedStage = 0
         /\ errlog = <<>>
         /\ result.t = "str"
         /\ Len(trace) = 7
    /\ (HandsDetected /\ pc = "decode") =>
         Truthy(read_time_from_hands(hour_markers[1].v, hour_markers[2].v, clock_center))
    /\ \A i \in 1..Len(errlog) : errlog[i] # "Time estimation failed"

C4_MidnightReadingReturned ==
    /\ pc = "returned"
    /\ HandsDetected
    /\ result.t = "str"
    /\ result.v = <<"0", "0", ":", "0", "0">>

\* C5: when the selection leaves no candidate, classification gives
\* (None, None) and the run returns a failure of stage 5 without calling
\* read_time_from_hands; so does a run whose collaborator returned no line.
C5_NoCandidateFailsHandStage ==
    /\ (FilterReturned /\ Len(filtered_lines) = 0) => pc \in {"classify", "returned"}
    /\ (FilterReturned /\ Len(filtered_lines) = 0 /\ pc # "classify") =>
         /\ Failed
         /\ failedStage = 5
         /\ IsNone(result)
         /\ IsNone(hour_markers[1]) /\ IsNone(hour_markers[2])
         /\ Len(trace) = 6
    /\ (Len(trace) >= 5 /\ trace[5].out = "null") =>
         /\ Failed
         /\ failedStage = 5
         /\ Len(trace) = 5

C5_NothingSelectedRunFailed ==
    /\ FilterReturned
    /\ Len(lines) > 0
    /\ Len(filtered_lines) = 0
    /\ pc = "returned"

\* C6: the selection never holds more than 2 lines; the loop goes on only
\* while it holds fewer than 2; and when it holds 2, the last line examined
\* is the one that made it 2.
C6_AtMostTwoSelected ==
    /\ Len(filtered_lines) <= 2
    /\ pc = "filter" => Len(filtered_lines) < 2
    /\ (FilterReturned /\ Len(filtered_lines) = 2) =>
         /\ idx >= 2
         /\ lines[idx] = filtered_lines[2]
         /\ \E i \in 1..(idx - 1) : lines[i] = filtered_lines[1]
    /\ FilterReturned => idx <= Len(lines)

C6_ThirdLineNotExamined ==
    /\ pc = "classify"
    /\ Len(filtered_lines) = 2
    /\ idx < Len(lines)

\* C7: of two lines that both have an endpoint within
\* max_distance_from_center of the centre and whose angles differ by less
\* than min_angle_difference, the selection is the first alone.
C7_CloseAnglesKeepFirst ==
    (/\ FilterReturned
     /\ Len(lines) = 2
     /\ NearCenter(lines[1], clock_center)
     /\ NearCenter(lines[2], clock_center)
     /\ AngleDiffBelowMin(get_line_angle(lines[1], clock_center),
                          get_line_angle(lines[2], clock_center)))
        => filtered_lines = <<lines[1]>>

C7_CloseAnglesFarApart ==
    /\ FilterReturned
    /\ Len(lines) = 2
    /\ NearCenter(lines[1], clock_center)
    /\ NearCenter(lines[2], clock_center)
    /\ AngleDiffBelowMin(get_line_angle(lines[1], clock_center),
                         get_line_angle(lines[2], clock_center))
    /\ ~ MinAvgDistBelowMax(lines[2], lines[1])
    /\ lines[1] # lines[2]

\* C8: what a call of filter_lines_by_center returns is a function of its
\* lines and centre alone, whatever the calls before it computed: the same
\* arguments give the same sequence in the same order.
C8_SelectionDependsOnArgumentsOnly ==
    FilterReturned => filtered_lines = filter_lines_by_center(lines, clock_center)

C8_CallAfterAnEarlierSelection ==
    /\ FilterReturned
    /\ prev.ended = "returned"
    /\ prev.stage = 0
    /\ Len(filtered_lines) = 1

\* The two endpoints of a line, whatever their order.
Physical(line) == {<<line[1], line[2]>>, <<line[3], line[4]>>}

SwapAt(ls, i) == [ls EXCEPT ![i] = Swap(ls[i])]

\* C9: swapping the two endpoints of a line leaves its angle unchanged, and
\* with it the selection (as a set of physical lines) and the decoded time,
\* lines with endpoints equidistant from the centre included.
C9_EndpointOrderAgnostic ==
    (Len(trace) >= 5 /\ trace[5].out = "ok") =>
        \A i \in 1..Len(lines) :
            /\ SameAngle(get_line_angle(lines[i], clock_center),
                         get_line_angle(Swap(lines[i]), clock_center))
            /\ SameAngle(calculate_line_angle(lines[i], clock_center),
                         calculate_line_angle(Swap(lines[i]), clock_center))
            /\ LET a == filter_lines_by_center(lines, clock_center)
                   b == filter_lines_by_center(SwapAt(lines, i), clock_center)
               IN {Physical(a[j]) : j \in 1..Len(a)} = {Physical(b[j]) : j \in 1..Len(b)}
            /\ read_time_from_hands(lines[i], lines[i], clock_center)
                 = read_time_from_hands(Swap(lines[i]), Swap(lines[i]), clock_center)

\* C10: the hour hand returned is never longer than the minute hand; of
\* two selected lines of different lengths the longer is the minute hand
\* whichever came first in the input (also with the two input lines
\* exchanged), and of two of equal length the first selected is the minute
\* hand.
C10_HourHandNotLonger ==
    HandsDetected =>
        LET hour == hour_markers[1].v
            minute == hour_markers[2].v
        IN /\ Length2(hour) <= Length2(minute)
           /\ Len(filtered_lines) = 2 =>
                LET first == filtered_lines[1]
                    second == filtered_lines[2]
                IN /\ Length2(first) > Length2(second) => (minute = first /\ hour = second)
                   /\ Length2(first) < Length2(second) => (minute = second /\ hour = first)
                   /\ Length2(first) = Length2(second) => (minute = first /\ hour = second)
           /\ (Len(lines) = 2 /\ Len(filtered_lines) = 2
               /\ Length2(lines[1]) # Length2(lines[2])) =>
                identify_hour_and_minute_hands(<<lines[2], lines[1]>>, clock_center)
                  = hour_markers

C10_ShorterLineCameFirst ==
    /\ HandsDetected
    /\ Len(lines) = 2
    /\ Len(filtered_lines) = 2
    /\ Length2(filtered_lines[1]) < Length2(filtered_lines[2])


\* This run called identify_hour_and_minute_hands, and the call has returned.
Classified == FilterReturned /\ pc # "classify"

\* C11: when one line alone is selected, identify_hour_and_minute_hands
\* returns that line as the hour hand and as the minute hand, and the run
\* goes on to read_time_from_hands and returns a time, not a failure.
C11_SingleCandidateIsBothHands ==
    (Classified /\ Len(filtered_lines) = 1) =>
        /\ ~ IsNone(hour_markers[1]) /\ ~ IsNone(hour_markers[2])
        /\ hour_markers[1].v = filtered_lines[1]
        /\ hour_markers[2].v = filtered_lines[1]
        /\ HandsDetected
        /\ pc \in {"decode", "returned"}
        /\ pc = "returned" =>
             /\ failedStage = 0
             /\ errlog = <<>>
             /\ result.t = "str"
             /\ trace[Len(trace)].op = "read_time_from_hands"

C11_SingleCandidateRunReturnedTime ==
    /\ pc = "returned"
    /\ Classified
    /\ Len(filtered_lines) = 1
    /\ Len(lines) = 3
    /\ result.t = "str"


\* The direction of 6k degrees clockwise from 12 o'clock, k = 0..59, as
\* (sin, cos) * 10000, rounded; the four axis directions are exact.
SinSix ==
    <<
      0, 1045, 2079, 3090, 4067, 5000, 5878, 6691, 7431, 8090,
      8660, 9135, 9511, 9781, 9945, 10000, 9945, 9781, 9511, 9135,
      8660, 8090, 7431, 6691, 5878, 5000, 4067, 3090, 2079, 1045,
      0, -1045, -2079, -3090, -4067, -5000, -5878, -6691, -7431, -8090,
      -8660, -9135, -9511, -9781, -9945, -10000, -9945, -9781, -9511, -9135,
      -8660, -8090, -7431, -6691, -5878, -5000, -4067, -3090, -2079, -1045 >>

CosSix ==
    <<
      10000, 9945, 9781, 9511, 9135, 8660, 8090, 7431, 6691, 5878,
      5000, 4067, 3090, 2079, 1045, 0, -1045, -2079, -3090, -4067,
      -5000, -5878, -6691, -7431, -8090, -8660, -9135, -9511, -9781, -9945,
      -10000, -9945, -9781, -9511, -9135, -8660, -8090, -7431, -6691, -5878,
      -5000, -4067, -3090, -2079, -1045, 0, 1045, 2079, 3090, 4067,
      5000, 5878, 6691, 7431, 8090, 8660, 9135, 9511, 9781, 9945 >>

\* floor(angle / width) for the clockwise angle of the vector u and a width
\* of 6 or 30 degrees: the k with k * width <= angle < (k + 1) * width,
\* found by the side of u of the two bounding directions.
FloorOfAngle(u, width) ==
    LET step == width \div 6
        SinDiff(j) == u[1] * CosSix[(j % 60) + 1] - u[2] * SinSix[(j % 60) + 1]
        CosDiff(j) == u[1] * SinSix[(j % 60) + 1] + u[2] * CosSix[(j % 60) + 1]
    IN CHOOSE k \in 0..((360 \div width) - 1) :
         /\ SinDiff(k * step) >= 0
         /\ SinDiff((k + 1) * step) < 0
         /\ CosDiff(k * step) > 0

\* The vector from the centre to the far endpoint of a hand, y upwards.
FarVector(line, center) ==
    LET end == FarEndpoint(line, center)
    IN <<end[1] - center[1], center[2] - end[2]>>

DigitValue(ch) == CHOOSE d \in 0..9 : Digits[d + 1] = ch

\* The hour and the minute a returned "HH:MM" says.
HourOfReading(r) == 10 * DigitValue(r.v[1]) + DigitValue(r.v[2])
MinuteOfReading(r) == 10 * DigitValue(r.v[4]) + DigitValue(r.v[5])

\* The centres a run can have.
Centers == {<<k[1], k[2]>> : k \in Clocks}

\* read_time_from_hands of every hour hand, minute hand and centre: the hour
\* is the 30 degree sector of the hour hand's angle, the minute the 6 degree
\* sector of the minute hand's.
EveryReadingIsFloorOfAngles ==
    \A center \in Centers : \A hour_hand \in Segs : \A minute_hand \in Segs :
        LET reading == read_time_from_hands(hour_hand, minute_hand, center)
        IN /\ reading.t = "str"
           /\ Len(reading.v) = 5
           /\ reading.v[3] = ":"
           /\ HourOfReading(reading) = FloorOfAngle(FarVector(hour_hand, center), 30) % 12
           /\ MinuteOfReading(reading) = FloorOfAngle(FarVector(minute_hand, center), 6) % 60
           /\ HourOfReading(reading) \in 0..11
           /\ MinuteOfReading(reading) \in 0..59

\* C12: the time returned is hour = floor(hourAngle / 30) mod 12 and
\* minute = floor(minuteAngle / 6) mod 60, each angle being the clockwise
\* angle of that hand's far endpoint; the hour is in 0..11 and the minute in
\* 0..59; the hour does not change with the minute hand nor the minute with
\* the hour hand; an hour hand at 90 and a minute hand at 180 degrees read
\* 03:30.
C12_ReadingIsFloorOfAngles ==
    /\ EveryReadingIsFloorOfAngles
    /\ (pc = "returned" /\ HandsDetected) =>
        LET hour_hand == hour_markers[1].v
            minute_hand == hour_markers[2].v
            hour_vector == FarVector(hour_hand, clock_center)
            minute_vector == FarVector(minute_hand, clock_center)
        IN /\ clock_center \in Centers
           /\ result = read_time_from_hands(hour_hand, minute_hand, clock_center)
           /\ HourOfReading(result) = FloorOfAngle(hour_vector, 30) % 12
           /\ MinuteOfReading(result) = FloorOfAngle(minute_vector, 6) % 60
           /\ (SameAngle(hour_vector, <<1, 0>>) /\ SameAngle(minute_vector, <<0, -1>>)) =>
                (HourOfReading(result) = 3 /\ MinuteOfReading(result) = 30)

C12_HalfPastThreeReturned ==
    /\ pc = "returned"
    /\ HandsDetected
    /\ SameAngle(FarVector(hour_markers[1].v, clock_center), <<1, 0>>)
    /\ SameAngle(FarVector(hour_markers[2].v, clock_center), <<0, -1>>)
    /\ result.v = <<"0", "3", ":", "3", "0">>


\* The run of the scenario: centre (100,100), radius 80, and the lines
\* (100,100,100,20), (100,100,160,100) in that order.
ScenarioRun ==
    /\ Len(trace) >= 5
    /\ trace[5].out = "ok"
    /\ clock.v = <<100, 100, 80>>
    /\ lines = <<LineUp, LineRight>>

\* C13: with centre (100,100), radius 80 and the lines (100,100,100,20),
\* (100,100,160,100) in that order, both lines are selected, the line of
\* length 80 (angle 0) is the minute hand and the line of length 60
\* (angle 90) the hour hand, and the run returns hour 3, minute 0.
C13_ScenarioReadsThreeOClock ==
    ScenarioRun =>
        /\ Length2(LineUp) = 80 * 80
        /\ Length2(LineRight) = 60 * 60
        /\ SameAngle(calculate_line_angle(LineUp, clock_center), <<0, 1>>)
        /\ SameAngle(calculate_line_angle(LineRight, clock_center), <<1, 0>>)
        /\ pc # "raised"
        /\ failedStage = 0
        /\ FilterReturned => filtered_lines = <<LineUp, LineRight>>
        /\ Classified =>
             /\ hour_markers = <<Obj(LineRight), Obj(LineUp)>>
             /\ HandsDetected
             /\ pc \in {"decode", "returned"}
        /\ pc = "returned" =>
             /\ result = PyStr(<<"0", "3", ":", "0", "0">>)
             /\ HourOfReading(result) = 3
             /\ MinuteOfReading(result) = 0
             /\ errlog = <<>>

C13_ScenarioRunReturned ==
    /\ ScenarioRun
    /\ pc = "returned"
    /\ Len(filtered_lines) = 2
    /\ result.t = "str"


\* The lines of `ls` at the indices S, in their order.
SubsequenceAt(ls, S) ==
    [n \in 1..Cardinality(S) |->
        ls[CHOOSE i \in S : Cardinality({j \in S : j <= i}) = n]]

\* S is the greedy selection among ls[1..n]: i is in S iff (a) an endpoint
\* of ls[i] is within max_distance_from_center of the centre, (b) fewer
\* than 2 indices below i are in S, (c) ls[i] is too close to no ls[j]
\* with j in S below i.
IsGreedySelection(S, ls, n, center) ==
    \A i \in 1..n :
        i \in S <=>
            /\ NearCenter(ls[i], center)
            /\ Cardinality({j \in S : j < i}) < 2
            /\ \A j \in S : j < i => ~ TooClose(ls[i], ls[j], center)

\* The loop of filter_lines_by_center is running or has returned.
InOrAfterFilter ==
    /\ Len(trace) >= 5
    /\ trace[5].out = "ok"

\* C14: filter_lines_by_center is the greedy selection in the order of the
\* input: a line is in the output iff (a), (b) and (c) hold of it; the
\* output is a subsequence of the input in the input's order, and its first
\* element is the first input line with (a).
C14_GreedySelectionInOrder ==
    InOrAfterFilter =>
        LET n == IF pc = "filter" THEN idx ELSE Len(lines)
            near == {i \in 1..n : NearCenter(lines[i], clock_center)}
            greedy == {S \in SUBSET (1..n) : IsGreedySelection(S, lines, n, clock_center)}
        IN /\ greedy # {}
           /\ \A S \in greedy : filtered_lines = SubsequenceAt(lines, S)
           /\ near = {} <=> filtered_lines = <<>>
           /\ near # {} =>
                filtered_lines[1] = lines[CHOOSE i \in near : \A j \in near : i <= j]

C14_FirstLineSkippedTwoSelected ==
    /\ FilterReturned
    /\ Len(lines) = 3
    /\ ~ NearCenter(lines[1], clock_center)
    /\ filtered_lines = <<lines[2], lines[3]>>


\* The angle between the vectors u and v, which is the difference of their
\* angles wrapped to [0, 180], is at least 15 degrees: it is 90 or more, or
\* its cotangent dot / |cross| is at most cot 15 = 2 + sqrt 3.
AngleSeparated(u, v) ==
    LET dot == u[1] * v[1] + u[2] * v[2]
        cross == Abs(u[1] * v[2] - u[2] * v[1])
    IN \/ dot <= 0
       \/ dot - 2 * cross <= 0
       \/ 3 * cross * cross >= (dot - 2 * cross) * (dot - 2 * cross)

\* (sqrt a2 + sqrt b2) / 2 >= 30: sqrt b2 alone is 60 or more, or
\* 120 * sqrt b2 >= 3600 + b2 - a2.
AvgAtLeastMax(a2, b2) ==
    \/ b2 >= 3600
    \/ 3600 + b2 - a2 <= 0
    \/ 14400 * b2 >= (3600 + b2 - a2) * (3600 + b2 - a2)

\* The average endpoint distance of both pairings is at least 30.
SpatiallySeparated(p, q) ==
    /\ AvgAtLeastMax(Dist2(p[1], p[2], q[1], q[2]), Dist2(p[3], p[4], q[3], q[4]))
    /\ AvgAtLeastMax(Dist2(p[1], p[2], q[3], q[4]), Dist2(p[3], p[4], q[1], q[2]))

SeparatedOnBoth(p, q, center) ==
    /\ AngleSeparated(FarVector(p, center), FarVector(q, center))
    /\ SpatiallySeparated(p, q)

\* C15: in every state of the selection loop and on return any two selected
\* lines are separated on both tests: their angles differ by at least
\* min_angle_difference after wrapping to [0, 180], and the smaller of the
\* two average endpoint distances is at least max_distance_from_center; a
\* line failing either test against a selected line is not added.
C15_SelectedLinesSeparated ==
    /\ [](InOrAfterFilter =>
            \A i, j \in 1..Len(filtered_lines) :
                i < j => SeparatedOnBoth(filtered_lines[j], filtered_lines[i], clock_center))
    /\ [][(/\ pc = "filter"
           /\ \E i \in 1..Len(filtered_lines) :
                ~ SeparatedOnBoth(lines[idx + 1], filtered_lines[i], clock_center))
          => filtered_lines' = filtered_lines]_vars

C15_RejectedOnDistanceAlone ==
    /\ FilterReturned
    /\ Len(lines) = 3
    /\ filtered_lines = <<lines[1], lines[3]>>
    /\ NearCenter(lines[2], clock_center)
    /\ AngleSeparated(FarVector(lines[2], clock_center), FarVector(lines[1], clock_center))
    /\ ~ SpatiallySeparated(lines[2], lines[1])


\* The run selected one line, used it as both hands, and returned a time.
SingleCandidateReturned ==
    /\ pc = "returned"
    /\ HandsDetected
    /\ Len(filtered_lines) = 1

\* C16: when one line is both the hour and the minute hand, the time
\* returned is hour = floor(angle / 30) mod 12 and minute =
\* floor(angle / 6) mod 60 of the one angle of that line, so that
\* minute div 5 = hour: one of 60 pairs (hour, minute).
C16_SingleCandidateTiedToOneAngle ==
    SingleCandidateReturned =>
        LET angle == FarVector(filtered_lines[1], clock_center)
            hour == HourOfReading(result)
            minute == MinuteOfReading(result)
        IN /\ hour = FloorOfAngle(angle, 30) % 12
           /\ minute = FloorOfAngle(angle, 6) % 60
           /\ minute \div 5 = hour
           /\ <<hour, minute>> \in {<<m \div 5, m>> : m \in 0..59}

C16_SingleCandidateOffTheHour ==
    /\ SingleCandidateReturned
    /\ MinuteOfReading(result) % 5 # 0
    /\ HourOfReading(result) # 0

====
